---- MODULE Spec2Model ----
(***************************************************************************)
(* AskMyNotes: the relational store (subjects, documents, chunks,          *)
(* chat_messages), the client API that writes to it (createSubject,        *)
(* deleteSubject, uploadFile) and the three edge functions                 *)
(* (process-document, chat, study) as interleaved request handlers.        *)
(* Every await of a handler is a step boundary.                            *)
(***************************************************************************)
EXTENDS Integers, Sequences, FiniteSets, TLC

VARIABLES subjects, documents, chunks, chat_messages, storage,
          nextSubject, nextDoc, uploads, procs, chat, study,
          prevAsm, budget, session, call

vars == <<subjects, documents, chunks, chat_messages, storage,
          nextSubject, nextDoc, uploads, procs, chat, study,
          prevAsm, budget, session, call>>

dbVars == <<subjects, documents, chunks, chat_messages, storage>>
reqVars == <<chat, study, prevAsm, budget>>
\* the React state of the page (Index) and one call of chunkText with its arguments
auxVars == <<session, call>>

(***************************************************************************)
(* Bounds of the model.                                                    *)
(***************************************************************************)
MaxSubjects == 2
MaxDocs == 2
MaxRequests == 1
MaxAnswers == 2
MaxConcurrentUploads == 1
MaxInterleavedUploads == 2
MaxSessionSubjects == 5
MaxPendingCreates == 2
MaxTextLen == 8
MaxChunkSize == 4
MaxIterations == 12
MaxOrdinal == 100

(***************************************************************************)
(* Program constants.                                                      *)
(***************************************************************************)
DefaultChunkSize == 1000
DefaultOverlap == 200
PageStride == 800
CharsPerPage == 3000
MinUsableChars == 10
StudyLineStride == 50
HistoryWindow == 10
SubjectLimit == 3

(***************************************************************************)
(* Text is a string; Len, SubSeq and \o act on its characters.             *)
(***************************************************************************)
NL == "\n"
Whitespace == {" ", "\n", "\r", "\t"}

Char(t, i) == SubSeq(t, i, i)

RECURSIVE Rep(_, _)
Rep(s, n) ==
    IF n = 0 THEN ""
    ELSE IF n % 2 = 0 THEN LET half == Rep(s, n \div 2) IN half \o half
    ELSE s \o Rep(s, n - 1)

Max(a, b) == IF a >= b THEN a ELSE b
Min(a, b) == IF a <= b THEN a ELSE b

\* Math.ceil(a / b) for a >= 0, b > 0
CeilDiv(a, b) == (a + b - 1) \div b

\* String.prototype.slice(start, end) with 0 <= start <= end <= length
Slice(text, start, end) == SubSeq(text, start + 1, end)

RECURSIVE TrimStart(_)
TrimStart(t) ==
    IF Len(t) > 0 /\ Char(t, 1) \in Whitespace
    THEN TrimStart(SubSeq(t, 2, Len(t))) ELSE t

RECURSIVE TrimEnd(_)
TrimEnd(t) ==
    IF Len(t) > 0 /\ Char(t, Len(t)) \in Whitespace
    THEN TrimEnd(SubSeq(t, 1, Len(t) - 1)) ELSE t

\* String.prototype.trim()
Trim(t) == TrimEnd(TrimStart(t))

\* String.prototype.split("\n"): always at least one piece
Newlines(t) == {i \in 1..Len(t) : Char(t, i) = NL}

RECURSIVE SplitAt(_, _, _)
SplitAt(t, nl, from) ==
    LET rest == {i \in nl : i >= from} IN
    IF rest = {} THEN <<SubSeq(t, from, Len(t))>>
    ELSE LET cut == CHOOSE i \in rest : \A j \in rest : i <= j IN
         <<SubSeq(t, from, cut - 1)>> \o SplitAt(t, nl, cut + 1)

SplitLines(t) == SplitAt(t, Newlines(t), 1)

\* Array.prototype.join("\n")
RECURSIVE JoinLines(_)
JoinLines(ls) ==
    IF ls = <<>> THEN ""
    ELSE IF Len(ls) = 1 THEN ls[1]
    ELSE ls[1] \o NL \o JoinLines(Tail(ls))

\* .filter(l => l.trim().length > 10)
RECURSIVE SelectLines(_)
SelectLines(ls) ==
    IF ls = <<>> THEN <<>>
    ELSE IF Len(Trim(Head(ls))) > MinUsableChars
         THEN <<Head(ls)>> \o SelectLines(Tail(ls))
         ELSE SelectLines(Tail(ls))

(***************************************************************************)
(* process-document: chunkText and estimatePage.                           *)
(***************************************************************************)
RECURSIVE chunkLoop(_, _, _, _)
chunkLoop(text, start, chunkSize, overlap) ==
    IF start < Len(text)
    THEN <<Slice(text, start, Min(start + chunkSize, Len(text)))>>
         \o chunkLoop(text, start + (chunkSize - overlap), chunkSize, overlap)
    ELSE <<>>

\* the window advanced by chunkSize instead of chunkSize - overlap
chunkTextStepBySize(text, chunkSize, overlap) == chunkLoop(text, 0, chunkSize, 0)

\* the windows at the right offsets but cut to chunkSize - overlap characters
chunkTextWithoutOverlap(text, chunkSize, overlap) ==
    chunkLoop(text, 0, chunkSize - overlap, 0)

chunkText(text, chunkSize, overlap) == chunkLoop(text, 0, chunkSize, overlap)

(***************************************************************************)
(* JavaScript numbers are IEEE 754 doubles.  A positive double is kept as  *)
(* its MantissaBits significant bits m (most significant first, m[1] = 1)  *)
(* and an exponent e: its value is the sum of m[k] * 2^(e-k).  Division    *)
(* and multiplication round to nearest, ties to even.                      *)
(***************************************************************************)
MantissaBits == 53
DoubleZero == [m |-> <<>>, e |-> 0]

\* the binary digits of a natural number, none for 0
RECURSIVE Bin(_)
Bin(x) == IF x = 0 THEN <<>> ELSE Append(Bin(x \div 2), x % 2)

RECURSIVE BitsToInt(_, _)
BitsToInt(bits, acc) ==
    IF bits = <<>> THEN acc ELSE BitsToInt(Tail(bits), 2 * acc + Head(bits))

AnyOne(bits) == \E k \in DOMAIN bits : bits[k] = 1

\* count more digits of r / n after the binary point, by long division
RECURSIVE DivBits(_, _, _, _)
DivBits(r, n, count, acc) ==
    IF count = 0 THEN [bits |-> acc, r |-> r]
    ELSE IF 2 * r >= n THEN DivBits(2 * r - n, n, count - 1, Append(acc, 1))
    ELSE DivBits(2 * r, n, count - 1, Append(acc, 0))

\* the zero digits of r / n (0 < r < n) between the binary point and its first 1
RECURSIVE LeadZeros(_, _)
LeadZeros(r, n) == IF 2 * r < n THEN 1 + LeadZeros(2 * r, n) ELSE 0

RECURSIVE Pow2(_)
Pow2(k) == IF k = 0 THEN 1 ELSE 2 * Pow2(k - 1)

\* the mantissa plus one unit in its last place
IncrementBits(m) ==
    IF \A k \in DOMAIN m : m[k] = 1
    THEN [m |-> [k \in DOMAIN m |-> IF k = 1 THEN 1 ELSE 0], carry |-> 1]
    ELSE LET z == CHOOSE k \in DOMAIN m :
                     m[k] = 0 /\ \A j \in DOMAIN m : j > k => m[j] = 1
         IN [m |-> [k \in DOMAIN m |-> IF k < z THEN m[k] ELSE IF k = z THEN 1 ELSE 0],
             carry |-> 0]

\* bits (first one 1, weights from 2^(e-1) down) and whether anything non-zero
\* lies beyond them, rounded to MantissaBits bits
RoundBits(bits, sticky, e) ==
    LET m == [k \in 1..MantissaBits |-> IF k <= Len(bits) THEN bits[k] ELSE 0]
        roundBit == IF Len(bits) > MantissaBits THEN bits[MantissaBits + 1] ELSE 0
        beyond == sticky \/ \E k \in DOMAIN bits : k > MantissaBits + 1 /\ bits[k] = 1
    IN IF roundBit = 1 /\ (beyond \/ m[MantissaBits] = 1)
       THEN [m |-> IncrementBits(m).m, e |-> e + IncrementBits(m).carry]
       ELSE [m |-> m, e |-> e]

\* a / n for integers a >= 0 and n > 0
DoubleDiv(a, n) ==
    IF a = 0 THEN DoubleZero
    ELSE IF a >= n
    THEN LET whole == Bin(a \div n)
             frac == DivBits(a % n, n, MantissaBits + 1 - Len(whole), <<>>)
         IN RoundBits(whole \o frac.bits, frac.r # 0, Len(whole))
    ELSE LET z == LeadZeros(a, n)
             frac == DivBits(a * Pow2(z), n, MantissaBits + 1, <<>>)
         IN RoundBits(frac.bits, frac.r # 0, 0 - z)

\* the mantissa times a natural number, bit by bit from the last
RECURSIVE MulBits(_, _, _, _, _)
MulBits(m, p, k, carry, acc) ==
    IF k = 0 THEN Bin(carry) \o acc
    ELSE MulBits(m, p, k - 1, (m[k] * p + carry) \div 2,
                 <<(m[k] * p + carry) % 2>> \o acc)

\* d * p for a double d and an integer p > 0
DoubleMul(d, p) ==
    IF d = DoubleZero THEN DoubleZero
    ELSE LET product == MulBits(d.m, p, MantissaBits, 0, <<>>)
         IN RoundBits(product, FALSE, d.e + Len(product) - MantissaBits)

\* Math.ceil of a double d >= 0 below 2^MantissaBits
MathCeil(d) ==
    IF d = DoubleZero THEN 0
    ELSE IF d.e <= 0 THEN 1
    ELSE BitsToInt(SubSeq(d.m, 1, d.e), 0)
         + (IF AnyOne(SubSeq(d.m, d.e + 1, MantissaBits)) THEN 1 ELSE 0)

estimatePage(charIndex, totalChars, estimatedPages) ==
    Max(1, MathCeil(DoubleMul(DoubleDiv(charIndex, totalChars), estimatedPages)))

(***************************************************************************)
(* process-document: text extraction.                                      *)
(***************************************************************************)
\* a byte outside \x20-\x7E, \n, \r, \t
NonPrintable == "\f"

\* String.prototype.endsWith
EndsWith(name, suffix) ==
    /\ Len(name) >= Len(suffix)
    /\ SubSeq(name, Len(name) - Len(suffix) + 1, Len(name)) = suffix

\* .replace(/[^\x20-\x7E\n\r\t]/g, " ")
RECURSIVE StripNonPrintable(_)
StripNonPrintable(t) ==
    IF Len(t) = 0 THEN ""
    ELSE (IF Char(t, 1) = NonPrintable THEN " " ELSE Char(t, 1))
         \o StripNonPrintable(SubSeq(t, 2, Len(t)))

RECURSIVE WsRun(_, _)
WsRun(t, i) == IF i <= Len(t) /\ Char(t, i) \in Whitespace THEN 1 + WsRun(t, i + 1) ELSE 0

\* .replace(/\s{3,}/g, "\n")
RECURSIVE CollapseFrom(_, _)
CollapseFrom(t, i) ==
    IF i > Len(t) THEN ""
    ELSE LET n == WsRun(t, i) IN
         IF n >= 3 THEN NL \o CollapseFrom(t, i + n)
         ELSE IF n > 0 THEN SubSeq(t, i, i + n - 1) \o CollapseFrom(t, i + n)
         ELSE Char(t, i) \o CollapseFrom(t, i + 1)

CollapseWhitespace(t) == CollapseFrom(t, 1)

\* the fallback of the PDF branch: permissive decode, strip, collapse, keep long lines
heuristicText(bytes) ==
    JoinLines(SelectLines(SplitLines(Trim(CollapseWhitespace(StripNonPrintable(bytes))))))

\* !text || text.trim().length < 10
TooShort(text) == text = "" \/ Len(Trim(text)) < MinUsableChars

placeholderText(filename) ==
    "[Document: " \o filename \o
    " - Text extraction was limited. The document may contain images or complex formatting.]"

\* the extracted text kept as it is, however short
keepExtracted(text, filename) == text

\* lines 107-109
withPlaceholder(text, filename) ==
    IF TooShort(text) THEN placeholderText(filename) ELSE text

\* the text of the PDF branch once the extraction capability has answered
pdfText(bytes, aiText) ==
    IF TooShort(aiText) THEN heuristicText(bytes) ELSE aiText

\* the rows with the index counted from 1
chunkRowsFromOne(document_id, subject_id, text) ==
    LET textChunks == chunkText(text, DefaultChunkSize, DefaultOverlap)
        estimatedPages == Max(1, CeilDiv(Len(text), CharsPerPage))
    IN { [document_id |-> document_id,
          subject_id |-> subject_id,
          content |-> textChunks[k],
          page_number |-> estimatePage((k - 1) * PageStride, Len(text), estimatedPages),
          chunk_index |-> k] : k \in 1..Len(textChunks) }

\* textChunks.map((content, index) => ({...}))
chunkRows(document_id, subject_id, text) ==
    LET textChunks == chunkText(text, DefaultChunkSize, DefaultOverlap)
        estimatedPages == Max(1, CeilDiv(Len(text), CharsPerPage))
    IN { [document_id |-> document_id,
          subject_id |-> subject_id,
          content |-> textChunks[k],
          page_number |-> estimatePage((k - 1) * PageStride, Len(text), estimatedPages),
          chunk_index |-> k - 1] : k \in 1..Len(textChunks) }

(***************************************************************************)
(* The files a user uploads.                                               *)
(***************************************************************************)
FileA == [name |-> "bio.txt", bytes |-> "Mitosis has four phases."]
\* 801 characters: two chunks, the first of 52 lines
FileB == [name |-> "notes.txt", bytes |-> Rep("x\n", 51) \o Rep("y", 699)]

Files == {FileA, FileB}

\* files that give the handler little or nothing to read
FileEmpty == [name |-> "empty.txt", bytes |-> ""]
FileImage == [name |-> "photo.png", bytes |-> Rep(NonPrintable, 4) \o "PNG"]
\* a PDF of images only, and one with a line of plain text in it
FileScan == [name |-> "scan.pdf", bytes |-> "%PDF" \o Rep(NonPrintable, 4)]
FilePaper == [name |-> "paper.pdf",
              bytes |-> "%PDF-1.4 recoverable line" \o Rep(NonPrintable, 3) \o "BT"]

HardFiles == {FileEmpty, FileImage, FileScan, FilePaper}

SubjectNames == {"Biology"}

SubjectIds == 1..MaxSubjects
DocIds == 1..MaxDocs

None == [pc |-> "none"]
\* Index before fetchSubjects: useState<Subject[]>([]), no createSubject call pending
NoSession == [subjects |-> {}, creating |-> 0]

\* function f extended or overwritten at key k
Put(f, k, v) == [x \in DOMAIN f \cup {k} |-> IF x = k THEN v ELSE f[x]]

SubjectExists(id) == id \in DOMAIN subjects
DocumentExists(id) == \E d \in documents : d.id = id

(***************************************************************************)
(* api.ts createSubject / deleteSubject.                                   *)
(***************************************************************************)
createSubject(name) ==
    /\ nextSubject <= MaxSubjects
    /\ subjects' = Put(subjects, nextSubject, [name |-> name, document_count |-> 0])
    /\ nextSubject' = nextSubject + 1
    /\ UNCHANGED <<documents, chunks, chat_messages, storage, nextDoc, uploads, procs>>
    /\ UNCHANGED reqVars
    /\ UNCHANGED auxVars

\* DELETE FROM subjects WHERE id = ..., with the ON DELETE CASCADE constraints
RECURSIVE SelectMessages(_, _)
SelectMessages(msgs, id) ==
    IF msgs = <<>> THEN <<>>
    ELSE IF Head(msgs).subject_id = id THEN SelectMessages(Tail(msgs), id)
    ELSE <<Head(msgs)>> \o SelectMessages(Tail(msgs), id)

\* the delete with no cascade from subjects and documents to chunks
deleteSubjectNoChunkCascade(id) ==
    /\ SubjectExists(id)
    /\ subjects' = [x \in DOMAIN subjects \ {id} |-> subjects[x]]
    /\ documents' = {d \in documents : d.subject_id # id}
    /\ chat_messages' = SelectMessages(chat_messages, id)
    /\ UNCHANGED <<chunks, storage, nextSubject, nextDoc, uploads, procs>>
    /\ UNCHANGED reqVars
    /\ UNCHANGED auxVars

deleteSubject(id) ==
    /\ SubjectExists(id)
    /\ subjects' = [x \in DOMAIN subjects \ {id} |-> subjects[x]]
    /\ documents' = {d \in documents : d.subject_id # id}
    /\ chunks' = {c \in chunks :
                    /\ c.subject_id # id
                    /\ ~\E d \in documents : d.id = c.document_id /\ d.subject_id = id}
    /\ chat_messages' = SelectMessages(chat_messages, id)
    /\ UNCHANGED <<storage, nextSubject, nextDoc, uploads, procs>>
    /\ UNCHANGED reqVars
    /\ UNCHANGED auxVars

(***************************************************************************)
(* api.ts uploadFile, one step per await.                                  *)
(***************************************************************************)
InFlightUploads == {u \in DOMAIN uploads : uploads[u].pc \notin {"returned", "failed"}}

\* limit: how many uploadFile calls the page has running at once
uploadStoreUpTo(subjectId, file, limit) ==
    /\ nextDoc <= MaxDocs
    /\ Cardinality(InFlightUploads) < limit
    /\ subjectId < nextSubject
    /\ storage' = Put(storage, nextDoc, file)
    /\ uploads' = Put(uploads, nextDoc,
                      [pc |-> "insert", subjectId |-> subjectId,
                       filename |-> file.name, count |-> 0, doc |-> 0])
    /\ nextDoc' = nextDoc + 1
    /\ UNCHANGED <<subjects, documents, chunks, chat_messages, nextSubject, procs>>
    /\ UNCHANGED reqVars
    /\ UNCHANGED auxVars

\* handleUpload awaits each uploadFile before it starts the next
uploadStore(subjectId, file) == uploadStoreUpTo(subjectId, file, MaxConcurrentUploads)

uploadInsertDoc(u) ==
    /\ u \in DOMAIN uploads
    /\ uploads[u].pc = "insert"
    /\ IF SubjectExists(uploads[u].subjectId)
       THEN /\ documents' = documents \cup
                    {[id |-> u, subject_id |-> uploads[u].subjectId,
                      filename |-> uploads[u].filename, storage_path |-> u]}
            /\ uploads' = [uploads EXCEPT ![u].pc = "count", ![u].doc = u]
       ELSE \* foreign key violation: docError is thrown
            /\ uploads' = [uploads EXCEPT ![u].pc = "failed"]
            /\ UNCHANGED documents
    /\ UNCHANGED <<subjects, chunks, chat_messages, storage, nextSubject, nextDoc, procs>>
    /\ UNCHANGED reqVars
    /\ UNCHANGED auxVars

uploadCount(u) ==
    /\ u \in DOMAIN uploads
    /\ uploads[u].pc = "count"
    /\ uploads' = [uploads EXCEPT
                      ![u].pc = "update",
                      ![u].count = Cardinality({d \in documents :
                                                 d.subject_id = uploads[u].subjectId})]
    /\ UNCHANGED <<subjects, documents, chunks, chat_messages, storage,
                   nextSubject, nextDoc, procs>>
    /\ UNCHANGED reqVars
    /\ UNCHANGED auxVars

\* the count update, then the dispatch of process-document, then return doc
uploadUpdate(u) ==
    /\ u \in DOMAIN uploads
    /\ uploads[u].pc = "update"
    /\ subjects' = IF SubjectExists(uploads[u].subjectId)
                   THEN [subjects EXCEPT
                           ![uploads[u].subjectId].document_count = uploads[u].count]
                   ELSE subjects
    /\ uploads' = [uploads EXCEPT ![u].pc = "returned"]
    /\ procs' = Put(procs, u,
                    [pc |-> "download", document_id |-> u,
                     subject_id |-> uploads[u].subjectId, storage_path |-> u,
                     filename |-> uploads[u].filename, extracted |-> "",
                     text |-> "", status |-> 0, error |-> ""])
    /\ UNCHANGED <<documents, chunks, chat_messages, storage, nextSubject, nextDoc>>
    /\ UNCHANGED reqVars
    /\ UNCHANGED auxVars

(***************************************************************************)
(* process-document handler, one step per await.                           *)
(***************************************************************************)
\* the messages of the errors thrown by the handler
DownloadFailed == "Failed to download file"
DocumentDeleted == "Document was deleted before processing completed"
InsertFailed == "Failed to insert chunks"
\* the messages of what fetch and Response.json throw
FetchFailed == "error sending request"
BodyUnreadable == "Unexpected end of JSON input"

ExtractionReplies ==
    { [kind |-> "notok", text |-> ""],
      [kind |-> "throw", text |-> ""],
      [kind |-> "badbody", text |-> ""],
      [kind |-> "ok", text |-> ""],
      [kind |-> "ok", text |-> " p. 1 "],
      [kind |-> "ok", text |-> "Extracted page text."] }

\* the download with its failure thrown into the uploadFile call that invoked it
procDownloadAwaited(p, downloadOk) ==
    /\ p \in DOMAIN procs
    /\ procs[p].pc = "download"
    /\ procs' =
         IF ~downloadOk \/ procs[p].storage_path \notin DOMAIN storage
         THEN [procs EXCEPT ![p].pc = "done", ![p].status = 500,
                            ![p].error = DownloadFailed]
         ELSE IF EndsWith(procs[p].filename, ".txt")
         THEN [procs EXCEPT ![p].pc = "check",
                            ![p].extracted = storage[procs[p].storage_path].bytes,
                            ![p].text = withPlaceholder(storage[procs[p].storage_path].bytes,
                                                        procs[p].filename)]
         ELSE IF EndsWith(procs[p].filename, ".pdf")
         THEN [procs EXCEPT ![p].pc = "extract"]
         ELSE [procs EXCEPT ![p].pc = "check",
                            ![p].text = withPlaceholder("", procs[p].filename)]
    /\ uploads' = IF ~downloadOk /\ p \in DOMAIN uploads
                  THEN [uploads EXCEPT ![p].pc = "failed"]
                  ELSE uploads
    /\ UNCHANGED <<subjects, documents, chunks, chat_messages, storage,
                   nextSubject, nextDoc>>
    /\ UNCHANGED reqVars
    /\ UNCHANGED auxVars

procDownload(p, downloadOk) ==
    /\ p \in DOMAIN procs
    /\ procs[p].pc = "download"
    /\ procs' =
         IF ~downloadOk \/ procs[p].storage_path \notin DOMAIN storage
         THEN [procs EXCEPT ![p].pc = "done", ![p].status = 500,
                            ![p].error = DownloadFailed]
         ELSE IF EndsWith(procs[p].filename, ".txt")
         THEN [procs EXCEPT ![p].pc = "check",
                            ![p].extracted = storage[procs[p].storage_path].bytes,
                            ![p].text = withPlaceholder(storage[procs[p].storage_path].bytes,
                                                        procs[p].filename)]
         ELSE IF EndsWith(procs[p].filename, ".pdf")
         THEN [procs EXCEPT ![p].pc = "extract"]
         ELSE [procs EXCEPT ![p].pc = "check",
                            ![p].text = withPlaceholder("", procs[p].filename)]
    /\ UNCHANGED <<subjects, documents, chunks, chat_messages, storage,
                   nextSubject, nextDoc, uploads>>
    /\ UNCHANGED reqVars
    /\ UNCHANGED auxVars

\* the .pdf branch: the fetch of the extraction capability (which may throw), the
\* reading of its body (which may throw), the fallback and the placeholder
procExtract(p, reply) ==
    /\ p \in DOMAIN procs
    /\ procs[p].pc = "extract"
    /\ procs' =
         IF reply.kind = "throw"
         THEN [procs EXCEPT ![p].pc = "done", ![p].status = 500, ![p].error = FetchFailed]
         ELSE IF reply.kind = "badbody"
         THEN [procs EXCEPT ![p].pc = "done", ![p].status = 500, ![p].error = BodyUnreadable]
         ELSE LET aiText == IF reply.kind = "ok" THEN reply.text ELSE "" IN
              [procs EXCEPT
                 ![p].pc = "check",
                 ![p].extracted = aiText,
                 ![p].text = withPlaceholder(
                     pdfText(storage[procs[p].storage_path].bytes, aiText),
                     procs[p].filename)]
    /\ UNCHANGED <<subjects, documents, chunks, chat_messages, storage,
                   nextSubject, nextDoc, uploads>>
    /\ UNCHANGED reqVars
    /\ UNCHANGED auxVars

procDocCheck(p) ==
    /\ p \in DOMAIN procs
    /\ procs[p].pc = "check"
    /\ procs' = IF DocumentExists(procs[p].document_id)
                THEN [procs EXCEPT ![p].pc = "insert"]
                ELSE [procs EXCEPT ![p].pc = "done", ![p].status = 500,
                                   ![p].error = DocumentDeleted]
    /\ UNCHANGED <<subjects, documents, chunks, chat_messages, storage,
                   nextSubject, nextDoc, uploads>>
    /\ UNCHANGED reqVars
    /\ UNCHANGED auxVars

\* the bulk insert without the foreign keys of the chunks table
procInsertNoForeignKey(p) ==
    /\ p \in DOMAIN procs
    /\ procs[p].pc = "insert"
    /\ chunks' = chunks \cup chunkRows(procs[p].document_id, procs[p].subject_id,
                                        procs[p].text)
    /\ procs' = [procs EXCEPT ![p].pc = "done", ![p].status = 200, ![p].text = ""]
    /\ UNCHANGED <<subjects, documents, chat_messages, storage,
                   nextSubject, nextDoc, uploads>>
    /\ UNCHANGED reqVars
    /\ UNCHANGED auxVars

procInsert(p) ==
    /\ p \in DOMAIN procs
    /\ procs[p].pc = "insert"
    /\ IF DocumentExists(procs[p].document_id) /\ SubjectExists(procs[p].subject_id)
       THEN /\ chunks' = chunks \cup chunkRows(procs[p].document_id, procs[p].subject_id,
                                                procs[p].text)
            /\ procs' = [procs EXCEPT ![p].pc = "done", ![p].status = 200, ![p].text = ""]
       ELSE \* foreign key violation: insertError is thrown
            /\ procs' = [procs EXCEPT ![p].pc = "done", ![p].status = 500, ![p].text = "",
                                      ![p].error = InsertFailed]
            /\ UNCHANGED chunks
    /\ UNCHANGED <<subjects, documents, chat_messages, storage,
                   nextSubject, nextDoc, uploads>>
    /\ UNCHANGED reqVars
    /\ UNCHANGED auxVars

(***************************************************************************)
(* JSON values as the edge functions see them.                             *)
(***************************************************************************)
Undefined == [t |-> "undefined"]
JNull == [t |-> "null"]
JStr(x) == [t |-> "string", v |-> x]
JNum(x) == [t |-> "number", v |-> x]
JList(x) == [t |-> "list", v |-> x]
JObj(fields) == [t |-> "object", f |-> fields]

\* JavaScript truthiness of the values above
Truthy(v) ==
    CASE v.t = "undefined" -> FALSE
      [] v.t = "null" -> FALSE
      [] v.t = "string" -> v.v # ""
      [] v.t = "number" -> v.v # 0
      [] OTHER -> TRUE

\* v.field throws a TypeError on null and undefined
Throws(v) == v.t \in {"null", "undefined"}

\* v.field where it does not throw
Get(v, field) ==
    IF v.t = "object" /\ field \in DOMAIN v.f THEN v.f[field] ELSE Undefined

(***************************************************************************)
(* The tool-call argument strings the capability may return, and           *)
(* JSON.parse on them.                                                     *)
(***************************************************************************)
ArgsFull == "{content:A,citations:[c1],evidence:[e1],confidence:High}"
ArgsEmptyObject == "{}"
ArgsNumber == "5"
ArgsNull == "null"
ArgsTruncated == "{content:"

ToolArguments ==
    { Undefined, JStr(""), JStr(ArgsTruncated), JStr(ArgsFull), JStr(ArgsEmptyObject),
      JStr(ArgsNumber), JStr(ArgsNull) }

SyntaxError == [t |-> "SyntaxError"]

JSONparse(str) ==
    CASE str = ArgsFull ->
           JObj([content |-> JStr("A"), citations |-> JList(<<"c1">>),
                 evidence |-> JList(<<"e1">>), confidence |-> JStr("High")])
      [] str = ArgsEmptyObject -> JObj(<<>>)
      [] str = ArgsNumber -> JNum(5)
      [] str = ArgsNull -> JNull
      [] OTHER -> SyntaxError

MessageContents == {JNull, JStr(""), JStr("plain answer")}

\* what fetch() to the gateway can produce
ChatReplies ==
    { [kind |-> "throw"], [kind |-> "status", status |-> 429],
      [kind |-> "status", status |-> 402], [kind |-> "status", status |-> 503],
      [kind |-> "badbody"] }
    \cup { [kind |-> "ok", arguments |-> a, content |-> c] :
             a \in ToolArguments, c \in MessageContents }

Apology == "Sorry, I couldn't generate a response."
NoNotes == "I don't have any notes to reference yet. Please upload some documents first."

ErrorBody(msg) == JObj([error |-> JStr(msg)])

NoNotesResult ==
    JObj([content |-> JStr(NoNotes), citations |-> JList(<<>>),
          evidence |-> JList(<<>>), confidence |-> JStr("Low")])

\* the fallback without its "|| apology" default
FallbackResultNoDefault(content) ==
    JObj([content |-> content,
          citations |-> JList(<<>>), evidence |-> JList(<<>>),
          confidence |-> JStr("Medium")])

\* let result = {...}, then lines 370-379 of the chat handler
FallbackResult(content) ==
    JObj([content |-> IF Truthy(content) THEN content ELSE JStr(Apology),
          citations |-> JList(<<>>), evidence |-> JList(<<>>),
          confidence |-> JStr("Medium")])

parseResult(reply) ==
    IF Truthy(reply.arguments)
    THEN IF JSONparse(reply.arguments.v).t = "SyntaxError"
         THEN FallbackResult(reply.content)
         ELSE JSONparse(reply.arguments.v)
    ELSE FallbackResult(reply.content)

(***************************************************************************)
(* Context assembly of the chat and study handlers.                        *)
(***************************************************************************)
MinIndex(rows) == CHOOSE m \in {c.chunk_index : c \in rows} :
                     \A c \in rows : m <= c.chunk_index

\* .eq("subject_id", subject_id).order("chunk_index"): the store may return rows of
\* equal chunk_index in any order
RECURSIVE OrderedByIndex(_)
OrderedByIndex(rows) ==
    IF rows = {} THEN {<<>>}
    ELSE UNION { { <<c>> \o rest : rest \in OrderedByIndex(rows \ {c}) } :
                 c \in {x \in rows : x.chunk_index = MinIndex(rows)} }

\* the query without its .eq("subject_id", ...) filter
selectChunksOfAll(subject_id) ==
    OrderedByIndex(chunks)

selectChunks(subject_id) ==
    OrderedByIndex({c \in chunks : c.subject_id = subject_id})

\* .from("documents").select("id, filename").in("id", docIds), then new Map(...)
docMapOf(rows) ==
    LET docIds == {rows[i].document_id : i \in 1..Len(rows)}
        docs == {d \in documents : d.id \in docIds}
    IN [id \in {d.id : d \in docs} |-> (CHOOSE d \in docs : d.id = id).filename]

Unknown == "unknown"

\* one element of chunks.map(...): the source header and the numbered lines
section(c, idx, startLine, docMap) ==
    LET lines == SplitLines(c.content) IN
    [filename |-> IF c.document_id \in DOMAIN docMap /\ docMap[c.document_id] # ""
                  THEN docMap[c.document_id] ELSE Unknown,
     page |-> IF c.page_number = 0 THEN "N/A" ELSE ToString(c.page_number),
     section |-> idx + 1,
     lines |-> [li \in 1..Len(lines) |->
                  [label |-> startLine + (li - 1), text |-> lines[li]]]]

\* chat: let cumulativeLine = 1; ... cumulativeLine += lines.length
RECURSIVE chatSections(_, _, _, _)
chatSections(rows, idx, cumulativeLine, docMap) ==
    IF idx >= Len(rows) THEN <<>>
    ELSE <<section(rows[idx + 1], idx, cumulativeLine, docMap)>>
         \o chatSections(rows, idx + 1,
                         cumulativeLine + Len(SplitLines(rows[idx + 1].content)), docMap)

\* the numbering restarted at L1 in every chunk
chatContextPerChunk(rows, docMap) ==
    [k \in 1..Len(rows) |-> section(rows[k], k - 1, 1, docMap)]

chatContext(rows, docMap) == chatSections(rows, 0, 1, docMap)

\* study: const startLine = idx * 50 + 1
studyContext(rows, docMap) ==
    [k \in 1..Len(rows) |->
        section(rows[k], k - 1, (k - 1) * StudyLineStride + 1, docMap)]

\* conversation_history.slice(-10).map(...) or [] when it is not an array
NotAList == [isArray |-> FALSE, items |-> <<>>]
AsList(items) == [isArray |-> TRUE, items |-> items]

\* the history passed on whole, without slice(-10)
historyWindowAll(h) ==
    IF h.isArray THEN h.items ELSE <<>>

historyWindow(h) ==
    IF h.isArray
    THEN SubSeq(h.items, Max(1, Len(h.items) - HistoryWindow + 1), Len(h.items))
    ELSE <<>>

requestBody(name, mode, context, history, question) ==
    [messages |->
        <<[role |-> "system",
           content |-> [template |-> IF mode = "voice_call" THEN "voice_call" ELSE "chat",
                        subject |-> name, notes |-> context]]>>
        \o [i \in 1..Len(historyWindow(history)) |->
              [role |-> historyWindow(history)[i].role,
               content |-> historyWindow(history)[i].content]]
        \o <<[role |-> "user", content |-> question]>>,
     tool_choice |-> "respond"]

(***************************************************************************)
(* chat handler (the answer request), one step per await.                  *)
(***************************************************************************)
NoRequest == [messages |-> <<>>, tool_choice |-> ""]

ChatIdle ==
    [pc |-> "none", subject_id |-> 0, question |-> "", history |-> NotAList,
     mode |-> "chat", name |-> "", rows |-> <<>>, docMap |-> <<>>,
     request |-> NoRequest, upstream |-> [kind |-> "none"],
     result |-> Undefined, status |-> 0, body |-> Undefined,
     chunkReads |-> 0, genCalls |-> 0,
     log |-> [user |-> "none", assistant |-> "none"]]

Questions == {"How many phases does mitosis have?"}
MaxHistory == 11
ShortHistory == 2
Turn(i) == [role |-> IF i % 2 = 1 THEN "user" ELSE "assistant", content |-> ToString(i)]

\* the two callers of sendMessage: Index.handleSend, and VoiceCall early and late
\* in a call
ChatInputs ==
    { [history |-> NotAList, mode |-> "chat"],
      [history |-> AsList([i \in 1..ShortHistory |-> Turn(i)]), mode |-> "voice_call"],
      [history |-> AsList([i \in 1..MaxHistory |-> Turn(i)]), mode |-> "voice_call"] }

ContextOf(r) == r.request.messages[1].content.notes

LogSettled(r) == r.log.user # "pending" /\ r.log.assistant # "pending"

Finish(r, status, body) == [r EXCEPT !.pc = "done", !.status = status, !.body = body]

chatReceive(subject_id, question, history, mode) ==
    /\ chat.pc \in {"none", "done"}
    /\ chat.pc = "done" => LogSettled(chat)
    /\ budget > 0
    /\ budget' = budget - 1
    /\ chat' = [ChatIdle EXCEPT !.pc = "lookup", !.subject_id = subject_id,
                                !.question = question, !.history = history,
                                !.mode = mode]
    /\ prevAsm' = IF chat.pc = "done" /\ chat.genCalls > 0
                  THEN [pc |-> "some", subject_id |-> chat.subject_id,
                        rows |-> chat.rows, docMap |-> chat.docMap,
                        context |-> ContextOf(chat)]
                  ELSE prevAsm
    /\ UNCHANGED <<dbVars, nextSubject, nextDoc, uploads, procs, study>>
    /\ UNCHANGED auxVars

\* .from("subjects").select("name").eq("id", subject_id).single()
chatLookup ==
    /\ chat.pc = "lookup"
    /\ chat' = IF SubjectExists(chat.subject_id)
               THEN [chat EXCEPT !.pc = "chunks", !.name = subjects[chat.subject_id].name]
               ELSE Finish(chat, 404, ErrorBody("Subject not found"))
    /\ UNCHANGED <<dbVars, nextSubject, nextDoc, uploads, procs, study, prevAsm, budget>>
    /\ UNCHANGED auxVars

\* the chunk read without the "no notes yet" short circuit
chatReadChunksNoShortCircuit ==
    /\ chat.pc = "chunks"
    /\ \E rows \in selectChunks(chat.subject_id) :
         chat' = [chat EXCEPT !.pc = "docs", !.rows = rows,
                              !.chunkReads = chat.chunkReads + 1]
    /\ UNCHANGED <<dbVars, nextSubject, nextDoc, uploads, procs, study, prevAsm, budget>>
    /\ UNCHANGED auxVars

chatReadChunks ==
    /\ chat.pc = "chunks"
    /\ \E rows \in selectChunks(chat.subject_id) :
         chat' = IF Len(rows) = 0
                 THEN [Finish(chat, 200, NoNotesResult) EXCEPT
                         !.chunkReads = chat.chunkReads + 1]
                 ELSE [chat EXCEPT !.pc = "docs", !.rows = rows,
                                   !.chunkReads = chat.chunkReads + 1]
    /\ UNCHANGED <<dbVars, nextSubject, nextDoc, uploads, procs, study, prevAsm, budget>>
    /\ UNCHANGED auxVars

\* the documents read, the context, the request body and the fetch being sent
chatAssemble ==
    /\ chat.pc = "docs"
    /\ LET docMap == docMapOf(chat.rows) IN
       chat' = [chat EXCEPT
                  !.pc = "generate",
                  !.docMap = docMap,
                  !.request = requestBody(chat.name, chat.mode,
                                          chatContext(chat.rows, docMap),
                                          chat.history, chat.question),
                  !.genCalls = chat.genCalls + 1]
    /\ UNCHANGED <<dbVars, nextSubject, nextDoc, uploads, procs, study, prevAsm, budget>>
    /\ UNCHANGED auxVars

\* the status mapping without its 402 branch
chatRespondNo402(r, reply) ==
    CASE reply.kind = "throw" -> Finish(r, 500, ErrorBody("fetch failed"))
      [] reply.kind = "status" /\ reply.status = 429 ->
           Finish(r, 429, ErrorBody("Rate limit exceeded. Please try again shortly."))
      [] reply.kind = "status" /\ reply.status # 429 ->
           Finish(r, 500, ErrorBody("AI request failed"))
      [] reply.kind = "badbody" -> Finish(r, 500, ErrorBody("Unexpected token"))
      [] reply.kind = "ok" ->
           LET result == parseResult(reply) IN
           IF Throws(result)
           THEN [Finish(r, 500, ErrorBody("Cannot read properties of null")) EXCEPT
                   !.result = result, !.log = [user |-> "pending", assistant |-> "none"]]
           ELSE [Finish(r, 200, result) EXCEPT
                   !.result = result, !.log = [user |-> "pending", assistant |-> "pending"]]

\* lines 350-397: the status mapping, the result parsing, the two detached inserts
chatRespond(r, reply) ==
    CASE reply.kind = "throw" -> Finish(r, 500, ErrorBody("fetch failed"))
      [] reply.kind = "status" /\ reply.status = 429 ->
           Finish(r, 429, ErrorBody("Rate limit exceeded. Please try again shortly."))
      [] reply.kind = "status" /\ reply.status = 402 ->
           Finish(r, 402, ErrorBody("Usage limit reached. Please add credits."))
      [] reply.kind = "status" /\ reply.status \notin {429, 402} ->
           Finish(r, 500, ErrorBody("AI request failed"))
      [] reply.kind = "badbody" -> Finish(r, 500, ErrorBody("Unexpected token"))
      [] reply.kind = "ok" ->
           LET result == parseResult(reply) IN
           IF Throws(result)
           THEN [Finish(r, 500, ErrorBody("Cannot read properties of null")) EXCEPT
                   !.result = result, !.log = [user |-> "pending", assistant |-> "none"]]
           ELSE [Finish(r, 200, result) EXCEPT
                   !.result = result, !.log = [user |-> "pending", assistant |-> "pending"]]

chatReply(reply) ==
    /\ chat.pc = "generate"
    /\ chat' = chatRespond([chat EXCEPT !.upstream = reply], reply)
    /\ UNCHANGED <<dbVars, nextSubject, nextDoc, uploads, procs, study, prevAsm, budget>>
    /\ UNCHANGED auxVars

logRow(r, role) ==
    IF role = "user"
    THEN [subject_id |-> r.subject_id, role |-> "user", content |-> JStr(r.question),
          citations |-> Undefined, evidence |-> Undefined, confidence |-> Undefined]
    ELSE [subject_id |-> r.subject_id, role |-> "assistant",
          content |-> Get(r.result, "content"),
          citations |-> Get(r.result, "citations"),
          evidence |-> Get(r.result, "evidence"),
          confidence |-> Get(r.result, "confidence")]

\* the insert awaited and its error thrown into the handler's catch
chatLogInsertAwaited(role) ==
    /\ chat.log[role] = "pending"
    /\ IF SubjectExists(chat.subject_id)
       THEN /\ chat_messages' = Append(chat_messages, logRow(chat, role))
            /\ chat' = [chat EXCEPT !.log[role] = "inserted"]
       ELSE /\ chat' = [chat EXCEPT !.log[role] = "failed", !.status = 500,
                                    !.body = ErrorBody("insert failed")]
            /\ UNCHANGED chat_messages
    /\ UNCHANGED <<subjects, documents, chunks, storage, nextSubject, nextDoc,
                   uploads, procs, study, prevAsm, budget>>
    /\ UNCHANGED auxVars

\* the insert with no foreign key from chat_messages to subjects
chatLogInsertNoForeignKey(role) ==
    /\ chat.log[role] = "pending"
    /\ chat_messages' = Append(chat_messages, logRow(chat, role))
    /\ chat' = [chat EXCEPT !.log[role] = "inserted"]
    /\ UNCHANGED <<subjects, documents, chunks, storage, nextSubject, nextDoc,
                   uploads, procs, study, prevAsm, budget>>
    /\ UNCHANGED auxVars

\* one of the two detached chat_messages inserts completes; its outcome is dropped
chatLogInsert(role) ==
    /\ chat.log[role] = "pending"
    /\ IF SubjectExists(chat.subject_id)
       THEN /\ chat_messages' = Append(chat_messages, logRow(chat, role))
            /\ chat' = [chat EXCEPT !.log[role] = "inserted"]
       ELSE \* foreign key violation, swallowed by .then(() => {})
            /\ chat' = [chat EXCEPT !.log[role] = "failed"]
            /\ UNCHANGED chat_messages
    /\ UNCHANGED <<subjects, documents, chunks, storage, nextSubject, nextDoc,
                   uploads, procs, study, prevAsm, budget>>
    /\ UNCHANGED auxVars

(***************************************************************************)
(* study handler (the study-set request), one step per await.              *)
(***************************************************************************)
StudyIdle ==
    [pc |-> "none", subject_id |-> 0, name |-> "", rows |-> <<>>, docMap |-> <<>>,
     context |-> <<>>, status |-> 0, body |-> Undefined,
     chunkReads |-> 0, genCalls |-> 0]

RawFiveThree == "Here you go: {mcqs:[5 items],shortAnswers:[3 items]}"
RawTwoOne == "{mcqs:[2 items],shortAnswers:[1 item]}"
RawEmptyObject == "{}"
RawNotJson == "{Not enough information in notes.}"
RawNoBraces == "Not enough information in notes."

StudyRaws ==
    { JNull, JStr(RawNoBraces), JStr(RawNotJson), JStr(RawEmptyObject),
      JStr(RawTwoOne), JStr(RawFiveThree) }

StudyReplies ==
    { [kind |-> "throw"], [kind |-> "status", status |-> 429], [kind |-> "badbody"] }
    \cup { [kind |-> "ok", content |-> c] : c \in StudyRaws }

Items(prefix, n) == JList([i \in 1..n |-> <<prefix, i>>])

EmptyStudySet == JObj([mcqs |-> JList(<<>>), shortAnswers |-> JList(<<>>)])

\* raw.match(/\{[\s\S]*\}/) then JSON.parse(jsonMatch[0]), null on no match or throw
studyParse(raw) ==
    CASE raw = RawFiveThree ->
           JObj([mcqs |-> Items("m", 5), shortAnswers |-> Items("s", 3)])
      [] raw = RawTwoOne ->
           JObj([mcqs |-> Items("m", 2), shortAnswers |-> Items("s", 1)])
      [] raw = RawEmptyObject -> JObj(<<>>)
      [] OTHER -> JNull

studyResult(content) ==
    LET raw == IF Truthy(content) THEN content.v ELSE ""
        parsed == studyParse(raw)
    IN IF Truthy(parsed) THEN parsed ELSE EmptyStudySet

studyReceive(subject_id) ==
    /\ study.pc \in {"none", "done"}
    /\ budget > 0
    /\ budget' = budget - 1
    /\ study' = [StudyIdle EXCEPT !.pc = "lookup", !.subject_id = subject_id]
    /\ UNCHANGED <<dbVars, nextSubject, nextDoc, uploads, procs, chat, prevAsm>>
    /\ UNCHANGED auxVars

studyLookup ==
    /\ study.pc = "lookup"
    /\ study' = IF SubjectExists(study.subject_id)
                THEN [study EXCEPT !.pc = "chunks", !.name = subjects[study.subject_id].name]
                ELSE Finish(study, 404, ErrorBody("Subject not found"))
    /\ UNCHANGED <<dbVars, nextSubject, nextDoc, uploads, procs, chat, prevAsm, budget>>
    /\ UNCHANGED auxVars

studyReadChunks ==
    /\ study.pc = "chunks"
    /\ \E rows \in selectChunks(study.subject_id) :
         study' = IF Len(rows) = 0
                  THEN [Finish(study, 200, EmptyStudySet) EXCEPT
                          !.chunkReads = study.chunkReads + 1]
                  ELSE [study EXCEPT !.pc = "docs", !.rows = rows,
                                     !.chunkReads = study.chunkReads + 1]
    /\ UNCHANGED <<dbVars, nextSubject, nextDoc, uploads, procs, chat, prevAsm, budget>>
    /\ UNCHANGED auxVars

studyAssemble ==
    /\ study.pc = "docs"
    /\ LET docMap == docMapOf(study.rows) IN
       study' = [study EXCEPT
                   !.pc = "generate",
                   !.docMap = docMap,
                   !.context = studyContext(study.rows, docMap),
                   !.genCalls = study.genCalls + 1]
    /\ UNCHANGED <<dbVars, nextSubject, nextDoc, uploads, procs, chat, prevAsm, budget>>
    /\ UNCHANGED auxVars

studyRespond(r, reply) ==
    IF reply.kind = "ok"
    THEN Finish(r, 200, studyResult(reply.content))
    ELSE Finish(r, 500, ErrorBody("AI request failed"))

studyReply(reply) ==
    /\ study.pc = "generate"
    /\ study' = studyRespond(study, reply)
    /\ UNCHANGED <<dbVars, nextSubject, nextDoc, uploads, procs, chat, prevAsm, budget>>
    /\ UNCHANGED auxVars

(***************************************************************************)
(* The store after the migrations, no request in flight.                   *)
(***************************************************************************)
Init ==
    /\ subjects = <<>>
    /\ documents = {}
    /\ chunks = {}
    /\ chat_messages = <<>>
    /\ storage = <<>>
    /\ nextSubject = 1
    /\ nextDoc = 1
    /\ uploads = <<>>
    /\ procs = <<>>
    /\ chat = ChatIdle
    /\ study = StudyIdle
    /\ prevAsm = None
    /\ budget = MaxRequests
    /\ session = NoSession
    /\ call = None

(***************************************************************************)
(* The system: every handler step interleaved with every other.            *)
(***************************************************************************)
StoreStep ==
    \/ \E name \in SubjectNames : createSubject(name)
    \/ \E id \in SubjectIds : deleteSubject(id)
    \/ \E id \in SubjectIds, file \in Files : uploadStore(id, file)
    \/ \E u \in DocIds : uploadInsertDoc(u)
    \/ \E u \in DocIds : uploadCount(u)
    \/ \E u \in DocIds : uploadUpdate(u)
    \/ \E p \in DocIds, ok \in BOOLEAN : procDownload(p, ok)
    \/ \E p \in DocIds : procDocCheck(p)
    \/ \E p \in DocIds : procInsert(p)

AssembleStep ==
    \/ \E id \in SubjectIds, q \in Questions, in \in ChatInputs :
          chatReceive(id, q, in.history, in.mode)
    \/ chatLookup
    \/ chatReadChunks
    \/ chatAssemble
    \/ \E id \in SubjectIds : studyReceive(id)
    \/ studyLookup
    \/ studyReadChunks
    \/ studyAssemble

\* the replies of a capability that answers as asked, or not at all
PlainChatReplies ==
    { [kind |-> "throw"],
      [kind |-> "ok", arguments |-> JStr(ArgsFull), content |-> JNull] }
PlainStudyReplies ==
    { [kind |-> "throw"], [kind |-> "ok", content |-> JStr(RawFiveThree)] }

Next ==
    \/ StoreStep
    \/ AssembleStep
    \/ \E reply \in PlainChatReplies : chatReply(reply)
    \/ \E role \in {"user", "assistant"} : chatLogInsert(role)
    \/ \E reply \in PlainStudyReplies : studyReply(reply)

Spec == Init /\ [][Next]_vars

(***************************************************************************)
(* The answer engine and the study-set generator over a store that holds   *)
(* subject 1 with bio.txt and notes.txt processed and subject 2 without    *)
(* documents; the capability may reply anything.                           *)
(***************************************************************************)
AnswerStore ==
    /\ subjects = (1 :> [name |-> "Biology", document_count |-> 2]
                   @@ 2 :> [name |-> "Biology", document_count |-> 0])
    /\ documents = { [id |-> 1, subject_id |-> 1, filename |-> FileA.name, storage_path |-> 1],
                     [id |-> 2, subject_id |-> 1, filename |-> FileB.name, storage_path |-> 2] }
    /\ chunks = chunkRows(1, 1, FileA.bytes) \cup chunkRows(2, 1, FileB.bytes)
    /\ chat_messages = <<>>
    /\ storage = (1 :> FileA @@ 2 :> FileB)
    /\ nextSubject = 3
    /\ nextDoc = 3

InitAnswer ==
    /\ AnswerStore
    /\ uploads = <<>>
    /\ procs = <<>>
    /\ chat = ChatIdle
    /\ study = StudyIdle
    /\ prevAsm = None
    /\ budget = MaxAnswers
    /\ session = NoSession
    /\ call = None

NextAnswer ==
    \/ \E id \in SubjectIds : deleteSubject(id)
    \/ AssembleStep
    \/ \E reply \in ChatReplies : chatReply(reply)
    \/ \E role \in {"user", "assistant"} : chatLogInsert(role)
    \/ \E reply \in StudyReplies : studyReply(reply)

SpecAnswer == InitAnswer /\ [][NextAnswer]_vars

(***************************************************************************)
(* The store under uploads that overlap: handleUpload called again while   *)
(* an earlier call is still awaiting uploadFile, or run from a second tab  *)
(* of the same session.                                                    *)
(***************************************************************************)
NextUploads ==
    \/ \E name \in SubjectNames : createSubject(name)
    \/ \E id \in SubjectIds : deleteSubject(id)
    \/ \E id \in SubjectIds, file \in Files :
          uploadStoreUpTo(id, file, MaxInterleavedUploads)
    \/ \E u \in DocIds : uploadInsertDoc(u)
    \/ \E u \in DocIds : uploadCount(u)
    \/ \E u \in DocIds : uploadUpdate(u)
    \/ \E p \in DocIds, ok \in BOOLEAN : procDownload(p, ok)
    \/ \E p \in DocIds : procDocCheck(p)
    \/ \E p \in DocIds : procInsert(p)

SpecUploads == Init /\ [][NextUploads]_vars

(***************************************************************************)
(* The page (Index) creating and deleting subjects: the limit is checked   *)
(* against the page's own list of subjects, before the insert is awaited.  *)
(***************************************************************************)
\* Index.createSubject up to "await apiCreateSubject(name)"
indexCreateSubject ==
    /\ Cardinality(session.subjects) < SubjectLimit
    /\ session.creating < MaxPendingCreates
    /\ nextSubject + session.creating <= MaxSessionSubjects
    /\ session' = [session EXCEPT !.creating = session.creating + 1]
    /\ UNCHANGED <<dbVars, nextSubject, nextDoc, uploads, procs, call>>
    /\ UNCHANGED reqVars

\* the insert of api.ts createSubject resolves, then setSubjects(prev => [...prev, newSubject])
indexSubjectCreated(name) ==
    /\ session.creating > 0
    /\ subjects' = Put(subjects, nextSubject, [name |-> name, document_count |-> 0])
    /\ nextSubject' = nextSubject + 1
    /\ session' = [subjects |-> session.subjects \cup {nextSubject},
                   creating |-> session.creating - 1]
    /\ UNCHANGED <<documents, chunks, chat_messages, storage, nextDoc, uploads, procs, call>>
    /\ UNCHANGED reqVars

\* Index.deleteSubject: the subject is one the page lists
indexDeleteSubject(id) ==
    /\ id \in session.subjects
    /\ deleteSubject(id)

\* Index.deleteSubject after the await: setSubjects(prev => prev.filter(...))
indexSubjectDeleted(id) ==
    /\ id \in session.subjects
    /\ ~SubjectExists(id)
    /\ session' = [session EXCEPT !.subjects = session.subjects \ {id}]
    /\ UNCHANGED <<dbVars, nextSubject, nextDoc, uploads, procs, call>>
    /\ UNCHANGED reqVars

NextSession ==
    \/ indexCreateSubject
    \/ \E name \in SubjectNames : indexSubjectCreated(name)
    \/ \E id \in 1..MaxSessionSubjects : indexDeleteSubject(id)
    \/ \E id \in 1..MaxSessionSubjects : indexSubjectDeleted(id)

SpecSession == Init /\ [][NextSession]_vars

(***************************************************************************)
(* chunkText on its own: every text up to MaxTextLen characters, every     *)
(* size up to MaxChunkSize and every overlap below the size.               *)
(***************************************************************************)
Alphabet == "abcdefghijklmnop"
Texts == {SubSeq(Alphabet, 1, n) : n \in 1..MaxTextLen}

ChunkInputs ==
    { [pc |-> "input", text |-> t, chunkSize |-> size, overlap |-> o, out |-> <<>>] :
        t \in Texts, size \in 1..MaxChunkSize, o \in 0..(MaxChunkSize - 1) }

InitChunk ==
    /\ subjects = <<>>
    /\ documents = {}
    /\ chunks = {}
    /\ chat_messages = <<>>
    /\ storage = <<>>
    /\ nextSubject = 1
    /\ nextDoc = 1
    /\ uploads = <<>>
    /\ procs = <<>>
    /\ chat = ChatIdle
    /\ study = StudyIdle
    /\ prevAsm = None
    /\ budget = 0
    /\ session = NoSession
    /\ call \in {in \in ChunkInputs : in.overlap < in.chunkSize}

chunkTextCall ==
    /\ call.pc = "input"
    /\ call' = [call EXCEPT !.pc = "returned",
                            !.out = chunkText(call.text, call.chunkSize, call.overlap)]
    /\ UNCHANGED <<dbVars, nextSubject, nextDoc, uploads, procs, session>>
    /\ UNCHANGED reqVars

NextChunk == chunkTextCall

SpecChunk == InitChunk /\ [][NextChunk]_vars

(***************************************************************************)
(* The loop of chunkText one iteration at a time, for every size and       *)
(* overlap up to MaxChunkSize, overlap >= size included.  The array of     *)
(* chunks is followed up to MaxIterations entries.                         *)
(***************************************************************************)
\* no request in flight, nothing stored
Quiet ==
    /\ subjects = <<>>
    /\ documents = {}
    /\ chunks = {}
    /\ chat_messages = <<>>
    /\ storage = <<>>
    /\ nextSubject = 1
    /\ nextDoc = 1
    /\ uploads = <<>>
    /\ procs = <<>>
    /\ chat = ChatIdle
    /\ study = StudyIdle
    /\ prevAsm = None
    /\ budget = 0
    /\ session = NoSession

\* String.prototype.slice(start, end) for any integers start and end
JsSlice(text, start, end) ==
    LET from == IF start < 0 THEN Max(Len(text) + start, 0) ELSE Min(start, Len(text))
        to == IF end < 0 THEN Max(Len(text) + end, 0) ELSE Min(end, Len(text))
    IN IF from >= to THEN "" ELSE SubSeq(text, from + 1, to)

InitChunkLoop ==
    /\ Quiet
    /\ call \in { [pc |-> "loop", text |-> in.text, chunkSize |-> in.chunkSize,
                    overlap |-> in.overlap, start |-> 0, out |-> <<>>] :
                  in \in ChunkInputs }

\* while (start < text.length) { ...; chunks.push(...); start += chunkSize - overlap }
chunkTextIterate ==
    /\ call.pc = "loop"
    /\ call.start < Len(call.text)
    /\ Len(call.out) < MaxIterations
    /\ call' = [call EXCEPT
                  !.out = Append(call.out,
                                 JsSlice(call.text, call.start,
                                         Min(call.start + call.chunkSize, Len(call.text)))),
                  !.start = call.start + (call.chunkSize - call.overlap)]
    /\ UNCHANGED <<dbVars, nextSubject, nextDoc, uploads, procs, session>>
    /\ UNCHANGED reqVars

\* the loop condition fails: return chunks
chunkTextReturn ==
    /\ call.pc = "loop"
    /\ ~(call.start < Len(call.text))
    /\ call' = [call EXCEPT !.pc = "returned"]
    /\ UNCHANGED <<dbVars, nextSubject, nextDoc, uploads, procs, session>>
    /\ UNCHANGED reqVars

NextChunkLoop == chunkTextIterate \/ chunkTextReturn

SpecChunkLoop == InitChunkLoop /\ [][NextChunkLoop]_vars

(***************************************************************************)
(* Uploads of files that are empty, of another type or PDFs, with every    *)
(* answer of the extraction capability.                                    *)
(***************************************************************************)
NextExtract ==
    \/ \E name \in SubjectNames : createSubject(name)
    \/ \E id \in SubjectIds : deleteSubject(id)
    \/ \E id \in SubjectIds, file \in HardFiles : uploadStore(id, file)
    \/ \E u \in DocIds : uploadInsertDoc(u)
    \/ \E u \in DocIds : uploadCount(u)
    \/ \E u \in DocIds : uploadUpdate(u)
    \/ \E p \in DocIds, ok \in BOOLEAN : procDownload(p, ok)
    \/ \E p \in DocIds, reply \in ExtractionReplies : procExtract(p, reply)
    \/ \E p \in DocIds : procDocCheck(p)
    \/ \E p \in DocIds : procInsert(p)

SpecExtract == Init /\ [][NextExtract]_vars

(***************************************************************************)
(* The page number of the chunk rows on its own: the chunk at each ordinal *)
(* up to MaxOrdinal of texts of several lengths.                           *)
(***************************************************************************)
TextLengths == {24, 801, 3000, 3001, 7200, 114816}

InitPage ==
    /\ Quiet
    /\ \E n \in TextLengths :
         \E i \in {j \in 0..MaxOrdinal : j * (DefaultChunkSize - DefaultOverlap) < n} :
            call = [pc |-> "input", totalChars |-> n, index |-> i, page |-> 0, before |-> 0]

\* the page_number of chunkRows at call.index, and the one of the row before it
pageNumberCall ==
    /\ call.pc = "input"
    /\ LET estimatedPages == Max(1, CeilDiv(call.totalChars, CharsPerPage)) IN
       call' = [call EXCEPT
                  !.pc = "returned",
                  !.page = estimatePage(call.index * PageStride, call.totalChars,
                                        estimatedPages),
                  !.before = IF call.index = 0 THEN 0
                             ELSE estimatePage((call.index - 1) * PageStride,
                                               call.totalChars, estimatedPages)]
    /\ UNCHANGED <<dbVars, nextSubject, nextDoc, uploads, procs, session>>
    /\ UNCHANGED reqVars

NextPage == pageNumberCall

SpecPage == InitPage /\ [][NextPage]_vars

(***************************************************************************)
(* VoiceCall.tsx: one mounted VoiceCall component.  call holds its React   *)
(* state (callState, callHistory), its refs (active, playing for audioRef, *)
(* recording for mediaRecorderRef, stream), the chatMessages prop, and pc: *)
(* the await at which the running chain of startCall or of the recorder's  *)
(* onstop handler stands.  closure is the callHistory that the             *)
(* startListening instance in use has captured: useCallback builds a new   *)
(* instance at each change of callHistory, but a running chain keeps       *)
(* calling the instance it was created with.                               *)
(* A new call is started only when no chain of an earlier call is still    *)
(* awaiting, and speech is interrupted only while it plays.                *)
(***************************************************************************)
MaxTurns == 2
MaxCalls == 2
MaxPriorChat == 8

\* chatMessages.slice(-6)
RecentChatWindow == 6

CallTurn(role, k) == [role |-> role, content |-> role \o " " \o ToString(k)]

PriorChats == { [i \in 1..n |-> Turn(i)] : n \in {0, 2, MaxPriorChat} }

\* chatMessages.slice(-6).map(m => ({role, content}))
recentChat(chatMessages) ==
    SubSeq(chatMessages, Max(1, Len(chatMessages) - RecentChatWindow + 1), Len(chatMessages))

\* a set-state call of a component that may have been unmounted
setCallState(c, state) == IF c.mounted THEN state ELSE c.callState
setCallHistory(c, history) == IF c.mounted THEN history ELSE c.callHistory

InitVoice ==
    /\ Quiet
    /\ \E chatMessages \in PriorChats :
         call = [pc |-> "idle", callState |-> "idle", active |-> FALSE, mounted |-> TRUE,
                 callHistory |-> <<>>, closure |-> <<>>, chatMessages |-> chatMessages,
                 sent |-> <<>>, playing |-> FALSE, recording |-> FALSE, stream |-> FALSE,
                 ended |-> FALSE, turns |-> 0, calls |-> 0]

\* endCall(): stays tells whether onClose leaves the component mounted
endCallOf(c, stays) ==
    [c EXCEPT !.active = FALSE, !.playing = FALSE, !.recording = FALSE, !.stream = FALSE,
              !.callState = setCallState(c, "idle"),
              !.mounted = c.mounted /\ stays,
              !.ended = TRUE]

\* startListening() up to its first await, or up to mediaRecorder.start()
startListeningOf(c) ==
    IF ~c.active THEN [c EXCEPT !.pc = "idle"]
    ELSE IF c.stream
    THEN [c EXCEPT !.callState = setCallState(c, "listening"), !.recording = TRUE,
                   !.pc = "listening"]
    ELSE [c EXCEPT !.callState = setCallState(c, "listening"), !.pc = "microphone"]

\* if (activeRef.current) startListening()
continueListening(c) ==
    IF c.active THEN startListeningOf(c) ELSE [c EXCEPT !.pc = "idle"]

\* speak(text) up to await textToSpeech(text)
speakOf(c) == [c EXCEPT !.callState = setCallState(c, "speaking"), !.pc = "synthesis"]

VoiceUnchanged ==
    /\ UNCHANGED <<dbVars, nextSubject, nextDoc, uploads, procs, session>>
    /\ UNCHANGED reqVars

\* startCall up to await sendMessage(subjectId, greetingPrompt, chatContext, ...)
startCall ==
    /\ call.pc = "idle" /\ call.callState = "idle" /\ call.mounted
    /\ call.calls < MaxCalls
    /\ call' = [call EXCEPT !.active = TRUE, !.callState = "greeting",
                            !.closure = call.callHistory,
                            !.callHistory = <<>>,
                            !.sent = recentChat(call.chatMessages),
                            !.ended = FALSE,
                            !.calls = call.calls + 1,
                            !.pc = "greeting"]
    /\ VoiceUnchanged

\* the greeting request settles
greetingAnswered(ok) ==
    /\ call.pc = "greeting"
    /\ call' = IF ok
               THEN speakOf([call EXCEPT
                        !.callHistory = setCallHistory(call,
                            <<CallTurn("user", 0), CallTurn("assistant", 0)>>)])
               ELSE [endCallOf(call, TRUE) EXCEPT !.pc = "idle"]
    /\ VoiceUnchanged

\* textToSpeech settles: audio.play(), or the toast and the return of speak
speechSynthesized(ok) ==
    /\ call.pc = "synthesis"
    /\ call' = IF ok THEN [call EXCEPT !.playing = TRUE, !.pc = "playing"]
               ELSE continueListening(call)
    /\ VoiceUnchanged

\* audio.onended or audio.onerror
audioEnded ==
    /\ call.pc = "playing" /\ call.playing
    /\ call' = continueListening([call EXCEPT !.playing = FALSE])
    /\ VoiceUnchanged

\* the button "Tap to stop speaking", whose handler calls the startListening of
\* the current render; the paused audio never ends, so the chain awaiting it stops
stopSpeaking ==
    /\ call.pc = "playing" /\ call.playing
    /\ call.mounted /\ call.callState = "speaking"
    /\ call' = continueListening([call EXCEPT !.playing = FALSE,
                                              !.closure = call.callHistory])
    /\ VoiceUnchanged

\* getUserMedia settles
microphoneAnswered(ok) ==
    /\ call.pc = "microphone"
    /\ call' = IF ok
               THEN [call EXCEPT !.stream = TRUE, !.recording = TRUE, !.pc = "listening"]
               ELSE [endCallOf(call, TRUE) EXCEPT !.pc = "idle"]
    /\ VoiceUnchanged

\* mediaRecorder.onstop, after stopListening or the 15 s timer, up to
\* await transcribeAudio(audioBlob)
recorderStopped(longEnough) ==
    /\ call.pc = "listening" /\ call.recording
    /\ call' = IF ~call.active THEN [call EXCEPT !.recording = FALSE, !.pc = "idle"]
               ELSE IF ~longEnough THEN continueListening([call EXCEPT !.recording = FALSE])
               ELSE [call EXCEPT !.recording = FALSE,
                                 !.callState = setCallState(call, "transcribing"),
                                 !.pc = "transcribing"]
    /\ VoiceUnchanged

\* transcribeAudio settles; with a text, up to await sendMessage(..., fullHistory, ...)
transcribed(result) ==
    /\ call.pc = "transcribing"
    /\ result = "text" => call.turns < MaxTurns
    /\ call' = IF result = "text"
               THEN [call EXCEPT !.callState = setCallState(call, "thinking"),
                                 !.sent = recentChat(call.chatMessages) \o call.closure,
                                 !.turns = call.turns + 1,
                                 !.pc = "thinking"]
               ELSE continueListening(call)
    /\ VoiceUnchanged

\* the answer request of a spoken question settles
questionAnswered(ok) ==
    /\ call.pc = "thinking"
    /\ call' = IF ok
               THEN speakOf([call EXCEPT
                        !.callHistory = setCallHistory(call,
                            call.callHistory \o <<CallTurn("user", call.turns),
                                                   CallTurn("assistant", call.turns)>>)])
               ELSE continueListening(call)
    /\ VoiceUnchanged

\* the button that ends the call
endCall(stays) ==
    /\ call.mounted /\ call.callState # "idle"
    /\ call' = [endCallOf(call, stays) EXCEPT
                  !.pc = IF call.pc \in {"listening", "playing"} THEN "idle" ELSE call.pc]
    /\ VoiceUnchanged

NextVoice ==
    \/ startCall
    \/ \E ok \in BOOLEAN : greetingAnswered(ok)
    \/ \E ok \in BOOLEAN : speechSynthesized(ok)
    \/ audioEnded
    \/ stopSpeaking
    \/ \E ok \in BOOLEAN : microphoneAnswered(ok)
    \/ \E longEnough \in BOOLEAN : recorderStopped(longEnough)
    \/ \E result \in {"text", "empty", "throw"} : transcribed(result)
    \/ \E ok \in BOOLEAN : questionAnswered(ok)
    \/ \E stays \in BOOLEAN : endCall(stays)

SpecVoice == InitVoice /\ [][NextVoice]_vars

(***************************************************************************)
(* SubjectManager.tsx, Index: the conversations the page displays.         *)
(* session holds the React state (activeSubject, messages, isLoading), the *)
(* fetchMessages calls of the effect that are in flight (loads) and the    *)
(* handleSend call that is awaiting sendMessage (send).  asked and         *)
(* answered remember what handleSend has put on display.  The chat handler *)
(* is one step here: an answered question has both its rows in the log.    *)
(***************************************************************************)
MaxSends == 2
MaxLoads == 3

\* what fetchMessages reads: the rows of the subject in the order of created_at
fetchMessages(subjectId) ==
    SelectSeq(chat_messages, LAMBDA m : m.subject_id = subjectId)

\* (data || []).map(m => ({ role: m.role, content: m.content, ... }))
toChatMessages(rows) ==
    [k \in 1..Len(rows) |-> [role |-> rows[k].role, content |-> rows[k].content.v]]

ViewAnswer == "plain answer"

NoSend == [subjectId |-> 0, content |-> ""]

InitView ==
    /\ AnswerStore
    /\ uploads = <<>>
    /\ procs = <<>>
    /\ chat = ChatIdle
    /\ study = StudyIdle
    /\ prevAsm = None
    /\ budget = 0
    /\ call = None
    /\ session = [activeSubject |-> 0, messages |-> <<>>, isLoading |-> FALSE,
                  loads |-> {}, send |-> NoSend, asked |-> {}, answered |-> {},
                  sends |-> 0, nextLoad |-> 1]

ViewUnchanged ==
    /\ UNCHANGED <<subjects, documents, chunks, storage, nextSubject, nextDoc,
                   uploads, procs, call>>
    /\ UNCHANGED reqVars

\* prev[subjectId] || []
displayed(messages, subjectId) ==
    IF subjectId \in DOMAIN messages THEN messages[subjectId] ELSE <<>>

\* setActiveSubject(s) and the effect on activeSubject?.id
selectSubject(id) ==
    /\ SubjectExists(id)
    /\ session.activeSubject # id
    /\ id \notin DOMAIN session.messages => session.nextLoad <= MaxLoads
    /\ session' =
         IF id \in DOMAIN session.messages
         THEN [session EXCEPT !.activeSubject = id]
         ELSE [session EXCEPT
                 !.activeSubject = id,
                 !.loads = session.loads \cup
                     {[n |-> session.nextLoad, subjectId |-> id, pc |-> "select",
                       msgs |-> <<>>]},
                 !.nextLoad = session.nextLoad + 1]
    /\ UNCHANGED chat_messages
    /\ ViewUnchanged

\* the select of fetchMessages runs in the database
fetchMessagesRead(n) ==
    \E load \in {l \in session.loads : l.n = n} :
        /\ load.pc = "select"
        /\ session' = [session EXCEPT
                         !.loads = (session.loads \ {load}) \cup
                             {[load EXCEPT !.pc = "then",
                                           !.msgs = toChatMessages(fetchMessages(load.subjectId))]}]
        /\ UNCHANGED chat_messages
        /\ ViewUnchanged

\* .then((msgs) => setMessages((prev) => ({ ...prev, [activeSubject.id]: msgs })))
fetchMessagesDone(n) ==
    \E load \in {l \in session.loads : l.n = n} :
        /\ load.pc = "then"
        /\ session' = [session EXCEPT
                         !.loads = session.loads \ {load},
                         !.messages = Put(session.messages, load.subjectId, load.msgs)]
        /\ UNCHANGED chat_messages
        /\ ViewUnchanged

\* .catch(() => {})
fetchMessagesFailed(n) ==
    \E load \in {l \in session.loads : l.n = n} :
        /\ session' = [session EXCEPT !.loads = session.loads \ {load}]
        /\ UNCHANGED chat_messages
        /\ ViewUnchanged

\* handleSend up to await sendMessage(subjectId, content); ChatInterface offers no
\* send while isLoading
handleSend ==
    /\ session.activeSubject # 0
    /\ ~session.isLoading
    /\ session.sends < MaxSends
    /\ LET subjectId == session.activeSubject
           content == "question " \o ToString(session.sends + 1)
       IN session' = [session EXCEPT
              !.messages = Put(session.messages, subjectId,
                               Append(displayed(session.messages, subjectId),
                                      [role |-> "user", content |-> content])),
              !.isLoading = TRUE,
              !.send = [subjectId |-> subjectId, content |-> content],
              !.asked = session.asked \cup {[subjectId |-> subjectId, content |-> content]},
              !.sends = session.sends + 1]
    /\ UNCHANGED chat_messages
    /\ ViewUnchanged

\* sendMessage settles: the reply is appended under the subjectId of the question
handleSendAnswered(ok) ==
    /\ session.send # NoSend
    /\ LET subjectId == session.send.subjectId
           r == [subject_id |-> subjectId, question |-> session.send.content,
                 result |-> FallbackResult(JStr(ViewAnswer))]
       IN IF ok
          THEN /\ chat_messages' = chat_messages \o <<logRow(r, "user"), logRow(r, "assistant")>>
               /\ session' = [session EXCEPT
                      !.messages = Put(session.messages, subjectId,
                                       Append(displayed(session.messages, subjectId),
                                              [role |-> "assistant", content |-> ViewAnswer])),
                      !.isLoading = FALSE,
                      !.send = NoSend,
                      !.answered = session.answered \cup {subjectId}]
          ELSE /\ UNCHANGED chat_messages
               /\ session' = [session EXCEPT !.isLoading = FALSE, !.send = NoSend]
    /\ ViewUnchanged

NextView ==
    \/ \E id \in SubjectIds : selectSubject(id)
    \/ \E n \in 1..MaxLoads : fetchMessagesRead(n)
    \/ \E n \in 1..MaxLoads : fetchMessagesDone(n)
    \/ \E n \in 1..MaxLoads : fetchMessagesFailed(n)
    \/ handleSend
    \/ \E ok \in BOOLEAN : handleSendAnswered(ok)

SpecView == InitView /\ [][NextView]_vars

(***************************************************************************)
(* Properties.                                                             *)
(***************************************************************************)
RowSet(rows) == {rows[i] : i \in 1..Len(rows)}
OwnChunks(id) == {c \in chunks : c.subject_id = id}

\* the text of each section of a context, line labels removed
SectionTexts(context) ==
    [k \in 1..Len(context) |->
        JoinLines([li \in 1..Len(context[k].lines) |-> context[k].lines[li].text])]
RowTexts(rows) == [k \in 1..Len(rows) |-> rows[k].content]

\* a step of an upload into, the processing for, the creation or the deletion of a
\* subject other than id
OtherSubjectStep(id) ==
    \/ nextSubject # id /\ \E name \in SubjectNames : createSubject(name)
    \/ \E other \in SubjectIds \ {id} : deleteSubject(other)
    \/ \E other \in SubjectIds \ {id}, file \in Files : uploadStore(other, file)
    \/ \E u \in DOMAIN uploads :
          /\ uploads[u].subjectId # id
          /\ uploadInsertDoc(u) \/ uploadCount(u) \/ uploadUpdate(u)
    \/ \E p \in DOMAIN procs :
          /\ procs[p].subject_id # id
          /\ procDocCheck(p) \/ procInsert(p) \/ \E ok \in BOOLEAN : procDownload(p, ok)

C1_ReadsOwnChunks ==
    /\ chat.pc = "chunks" /\ chat'.pc # "chunks"
         => RowSet(chat'.rows) = OwnChunks(chat.subject_id)
    /\ study.pc = "chunks" /\ study'.pc # "chunks"
         => RowSet(study'.rows) = OwnChunks(study.subject_id)
    /\ chat.pc = "docs" /\ chat'.pc = "generate"
         => SectionTexts(ContextOf(chat')) = RowTexts(chat.rows)
    /\ study.pc = "docs" /\ study'.pc = "generate"
         => SectionTexts(study'.context) = RowTexts(study.rows)

C1_UnchangedByOthers ==
    \A id \in SubjectIds :
        OtherSubjectStep(id) =>
            /\ selectChunks(id)' = selectChunks(id)
            /\ \A rows \in selectChunks(id) : docMapOf(rows)' = docMapOf(rows)
            /\ chat.pc = "docs" /\ chat.subject_id = id
                 => docMapOf(chat.rows)' = docMapOf(chat.rows)
            /\ study.pc = "docs" /\ study.subject_id = id
                 => docMapOf(study.rows)' = docMapOf(study.rows)

\* C1: the context of a request on subject S renders exactly the chunks whose
\* subject_id is S, and no upload into, processing for or deletion of another
\* subject changes what the assembler reads for S (the rows of the chunk query
\* and the filename of each of their documents), hence the context it builds.
C1_SubjectIsolation == [][C1_ReadsOwnChunks /\ C1_UnchangedByOthers]_vars

\* a context has been assembled for one subject while another subject holds chunks
C1_Witness ==
    /\ chat.pc = "generate"
    /\ Len(ContextOf(chat)) >= 2
    /\ \E c \in chunks : c.subject_id # chat.subject_id

\* C2: a request on an existing subject whose chunk query returns no rows ends with
\* the fixed no-notes result (answer) or the empty study set (study-set), status 200,
\* and no request to the generation capability is built or sent.
C2_NoNotesShortCircuit ==
    /\ (chat.pc \notin {"none", "lookup", "chunks"} /\ chat.name # "" /\ chat.rows = <<>>)
         => /\ chat.pc = "done"
            /\ chat.status = 200
            /\ chat.body = JObj([content |-> JStr(NoNotes), citations |-> JList(<<>>),
                                 evidence |-> JList(<<>>), confidence |-> JStr("Low")])
            /\ chat.genCalls = 0
            /\ chat.request = NoRequest
    /\ (study.pc \notin {"none", "lookup", "chunks"} /\ study.name # "" /\ study.rows = <<>>)
         => /\ study.pc = "done"
            /\ study.status = 200
            /\ study.body = JObj([mcqs |-> JList(<<>>), shortAnswers |-> JList(<<>>)])
            /\ study.genCalls = 0
            /\ study.context = <<>>

\* both requests have been served for an existing subject without chunks
C2_Witness ==
    /\ chat.pc = "done" /\ chat.name # "" /\ chat.rows = <<>> /\ chat.chunkReads = 1
    /\ study.pc = "done" /\ study.name # "" /\ study.rows = <<>> /\ study.chunkReads = 1
    /\ SubjectExists(chat.subject_id) /\ OwnChunks(chat.subject_id) = {}

\* the line labels of a context, in the order they are rendered
RECURSIVE LabelsOf(_)
LabelsOf(context) ==
    IF context = <<>> THEN <<>>
    ELSE [li \in 1..Len(Head(context).lines) |-> Head(context).lines[li].label]
         \o LabelsOf(Tail(context))

\* C3: in the context of an answer request the first line is L1 and each later line
\* is labelled one more than the line before it, across chunk boundaries.
C3_ChatLabelsConsecutive ==
    chat.genCalls > 0 =>
        \A i \in 1..Len(LabelsOf(ContextOf(chat))) : LabelsOf(ContextOf(chat))[i] = i

\* an answer context of several chunks, the first of them of more than one line
C3_Witness ==
    /\ chat.genCalls > 0
    /\ Len(ContextOf(chat)) >= 2
    /\ Len(ContextOf(chat)[1].lines) >= 2

StrictlyIncreasing(seq) == \A i \in 1..(Len(seq) - 1) : seq[i] < seq[i + 1]

\* C4: in the context of a study-set request the line labels strictly increase
\* across chunk boundaries, so no label occurs twice.
C4_StudyLabelsIncrease ==
    study.genCalls > 0 => StrictlyIncreasing(LabelsOf(study.context))

DocsContiguous(rows) ==
    \A i, k \in 1..Len(rows) :
        (i < k /\ rows[i].document_id = rows[k].document_id)
            => \A j \in i..k : rows[j].document_id = rows[i].document_id

AscendingInDoc(rows) ==
    \A i, k \in 1..Len(rows) :
        (i < k /\ rows[i].document_id = rows[k].document_id)
            => rows[i].chunk_index < rows[k].chunk_index

\* C5: the chunks of each document are rendered contiguously and in ascending
\* chunk_index, in the answer context and in the study-set context.
C5_DocumentsContiguous ==
    /\ chat.genCalls > 0 => DocsContiguous(chat.rows) /\ AscendingInDoc(chat.rows)
    /\ study.genCalls > 0 => DocsContiguous(study.rows) /\ AscendingInDoc(study.rows)

\* C6: two runs of the assembler over the same chunk rows and the same document
\* rows produce the same context.
C6_AssemblyRepeatable ==
    ( /\ prevAsm.pc = "some"
      /\ chat.genCalls > 0
      /\ chat.subject_id = prevAsm.subject_id
      /\ RowSet(chat.rows) = RowSet(prevAsm.rows)
      /\ chat.docMap = prevAsm.docMap )
        => ContextOf(chat) = prevAsm.context

WellFormedAnswer(body) ==
    /\ body.t = "object"
    /\ Get(body, "content").t = "string"
    /\ Get(body, "citations").t = "list"
    /\ Get(body, "evidence").t = "list"
    /\ Get(body, "confidence").t = "string"
    /\ Get(body, "confidence").v \in {"High", "Medium", "Low"}

\* C7: whenever the generation call returned success, the answer request ends with
\* status 200 and a body whose content is a string, whose citations and evidence
\* are lists and whose confidence is High, Medium or Low.
C7_MalformedNeverAnError ==
    (chat.pc = "done" /\ chat.upstream.kind = "ok")
        => chat.status = 200 /\ WellFormedAnswer(chat.body)

\* the reply carries no usable tool-call arguments
NoArguments(reply) ==
    \/ ~Truthy(reply.arguments)
    \/ JSONparse(reply.arguments.v).t = "SyntaxError"

\* C8: when the reply (a completion object) has no tool-call arguments or they do
\* not parse, the response is 200 with the reply's message text as content (the
\* apology when that is null or empty), empty citations and evidence, and
\* confidence Medium.
C8_FallbackToPlainText ==
    (chat.pc = "done" /\ chat.upstream.kind = "ok" /\ NoArguments(chat.upstream))
        => /\ chat.status = 200
           /\ chat.body =
                JObj([content |-> IF chat.upstream.content = JStr("plain answer")
                                  THEN JStr("plain answer")
                                  ELSE JStr("Sorry, I couldn't generate a response."),
                      citations |-> JList(<<>>), evidence |-> JList(<<>>),
                      confidence |-> JStr("Medium")])

\* truncated arguments and no message text: the apology is the content
C8_Witness ==
    /\ chat.pc = "done"
    /\ chat.upstream.kind = "ok"
    /\ chat.upstream.arguments = JStr(ArgsTruncated)
    /\ chat.upstream.content = JNull
    /\ chat.status = 200

IsErrorBody(body) ==
    /\ body.t = "object"
    /\ Get(body, "error").t = "string"
    /\ Get(body, "error").v # ""

\* C9: a request for a missing subject ends with 404 before any chunk read or
\* generation call; upstream 429 ends with 429, 402 with 402, any other non-success
\* status or a thrown exception with 500 and an error message; every finished
\* request has exactly one of the statuses 200, 404, 429, 402, 500 and has called
\* the capability at most once.
C9_StatusMapping ==
    /\ chat.genCalls <= 1 /\ chat.chunkReads <= 1
    /\ (chat.pc \notin {"none", "lookup"} /\ chat.name = "")
         => /\ chat.pc = "done" /\ chat.status = 404
            /\ chat.chunkReads = 0 /\ chat.genCalls = 0
    /\ chat.pc = "done" =>
         /\ chat.status \in {200, 404, 429, 402, 500}
         /\ chat.status = 404 => chat.name = ""
         /\ chat.upstream.kind = "status" =>
              chat.status = (IF chat.upstream.status \in {429, 402}
                             THEN chat.upstream.status ELSE 500)
         /\ chat.upstream.kind \in {"throw", "badbody"} => chat.status = 500
         /\ chat.status # 200 => IsErrorBody(chat.body)
         /\ chat.status = 200 => chat.upstream.kind \in {"none", "ok"}
    /\ chat.pc # "done" => chat.status = 0

\* the upstream answered 402 and so did the handler
C9_Witness ==
    /\ chat.pc = "done"
    /\ chat.upstream.kind = "status" /\ chat.upstream.status = 402
    /\ chat.status = 402

\* C10: the 200 response is fixed while both chat_messages inserts are still
\* pending, and no later step, a failing insert included, changes its status or body.
C10_ResponseIndependentOfLog ==
    [][ /\ (chat.pc = "generate" /\ chat'.pc = "done" /\ chat'.status = 200)
             => /\ chat'.log = [user |-> "pending", assistant |-> "pending"]
                /\ chat_messages' = chat_messages
        /\ (chat.pc = "done" /\ chat'.pc = "done")
             => chat'.status = chat.status /\ chat'.body = chat.body ]_vars

\* the answer was returned and then both inserts failed on the deleted subject
C10_Witness ==
    /\ chat.pc = "done" /\ chat.status = 200
    /\ chat.log = [user |-> "failed", assistant |-> "failed"]

\* C11: when the document row is gone at the docCheck or at the insert of
\* process-document, that step inserts no chunk row and ends the request with
\* status 500 (the logged error); a finished request never runs again, and a
\* request that ended this way leaves no chunk of its document.
C11_NoInsertForDeletedDocument ==
    [][ \A p \in DOMAIN procs :
          /\ ( /\ procs[p].pc \in {"check", "insert"}
               /\ ~DocumentExists(procs[p].document_id)
               /\ procs'[p] # procs[p] )
                => /\ procs'[p].pc = "done" /\ procs'[p].status = 500
                   /\ procs'[p].error \in {DocumentDeleted, InsertFailed}
                   /\ chunks' = chunks
                   /\ ~\E c \in chunks' : c.document_id = procs[p].document_id
          /\ procs[p].pc = "done" => procs'[p] = procs[p] ]_vars

\* processing found its document deleted at the docCheck
C11_Witness ==
    \E p \in DOMAIN procs :
        /\ procs[p].pc = "done" /\ procs[p].status = 500
        /\ procs[p].error = DocumentDeleted
        /\ ~DocumentExists(procs[p].document_id)

\* C12: every chunk row refers to an existing document, and its subject_id is that
\* document's subject_id, under any interleaving of uploads, processing and
\* subject deletions.
C12_ChunkBelongsToItsDocument ==
    \A c \in chunks :
        /\ SubjectExists(c.subject_id)
        /\ \E d \in documents : d.id = c.document_id /\ d.subject_id = c.subject_id

\* chunks of a live subject are stored while another subject has been deleted
\* under a processing request that then failed
C12_Witness ==
    /\ chunks # {}
    /\ \E id \in SubjectIds : id < nextSubject /\ ~SubjectExists(id)
    /\ \E p \in DOMAIN procs : procs[p].error \in {DocumentDeleted, InsertFailed}

ChunksOf(d) == {c \in chunks : c.document_id = d}
WholeSet(rows) == {c.chunk_index : c \in rows} = 0..(Cardinality(rows) - 1)

\* C13: after every step the chunk rows of each document are none or carry the
\* indexes 0..n-1 once each, and a step changes a document's rows only from none
\* to the whole set or from the whole set to none.
C13_ChunksWholeOrNone ==
    [][ \A d \in DocIds :
          /\ WholeSet(ChunksOf(d))'
          /\ ChunksOf(d)' # ChunksOf(d) => ChunksOf(d) = {} \/ ChunksOf(d)' = {} ]_vars

\* a document of several chunks has been stored
C13_Witness ==
    \E d \in DocIds : Cardinality(ChunksOf(d)) >= 2

DeletedSubjects == {id \in SubjectIds : id < nextSubject /\ ~SubjectExists(id)}

\* C14: no document, chunk or chat-message row refers to a deleted subject, also
\* after the processing and chat-logging tasks that were in flight at the deletion
\* have finished.
C14_CascadeComplete ==
    \A id \in DeletedSubjects :
        /\ ~\E d \in documents : d.subject_id = id
        /\ ~\E c \in chunks : c.subject_id = id
        /\ ~\E k \in 1..Len(chat_messages) : chat_messages[k].subject_id = id

\* a subject was deleted under a processing request and under the two log inserts
\* of an answer, and all three have finished since
C14_Witness ==
    \E id \in DeletedSubjects :
        /\ chat.subject_id = id
        /\ chat.log = [user |-> "failed", assistant |-> "failed"]
        /\ \E p \in DOMAIN procs :
              /\ procs[p].subject_id = id
              /\ procs[p].pc = "done"
              /\ procs[p].error \in {DocumentDeleted, InsertFailed}

\* C15: after any sequence of create-subject and delete-subject actions of the
\* page, creations issued while an earlier one is in flight included, the store
\* holds at most 3 subjects of the session.
C15_AtMostThreeSubjects ==
    Cardinality(DOMAIN subjects) <= 3

UploadsTo(id) == {u \in DOMAIN uploads : uploads[u].subjectId = id}

\* C16: once every upload to a subject has completed, the subject's document_count
\* equals the number of its document rows, also when two uploads interleaved.
C16_DocumentCountExact ==
    \A id \in DOMAIN subjects :
        ( /\ UploadsTo(id) # {}
          /\ \A u \in UploadsTo(id) : uploads[u].pc \in {"returned", "failed"} )
            => subjects[id].document_count =
                 Cardinality({d \in documents : d.subject_id = id})

\* C17: uploadFile returns the document row once the file is stored, the row
\* created and the count updated, with process-document dispatched but not yet
\* run; nothing process-document does afterwards changes what it returned.
C17_UploadIndependentOfProcessing ==
    [][ \A u \in DOMAIN uploads :
          /\ (uploads[u].pc = "update" /\ uploads'[u].pc = "returned")
               => /\ uploads'[u].doc = u
                  /\ u \in DOMAIN storage
                  /\ u \notin DOMAIN procs
                  /\ procs'[u].pc = "download"
                  /\ chunks' = chunks
          /\ uploads[u].pc = "returned" => uploads'[u] = uploads[u] ]_vars

\* two uploads have returned; the processing of one succeeded, of the other failed
C17_Witness ==
    \E u, v \in DOMAIN uploads :
        /\ uploads[u].pc = "returned" /\ uploads[v].pc = "returned"
        /\ u \in DOMAIN procs /\ procs[u].pc = "done" /\ procs[u].status = 200
        /\ v \in DOMAIN procs /\ procs[v].pc = "done" /\ procs[v].status = 500

\* C18: the messages of the generation request are the system instruction, then
\* the last 10 entries of the supplied history (all of them when there are fewer,
\* none when the history is not a list) in their order, then the question.
C18_HistoryTailWindow ==
    chat.genCalls > 0 =>
        LET msgs == chat.request.messages
            items == chat.history.items
            n == IF ~chat.history.isArray THEN 0
                 ELSE IF Len(items) > 10 THEN 10 ELSE Len(items)
        IN /\ Len(msgs) = n + 2
           /\ msgs[1].role = "system"
           /\ msgs[n + 2] = [role |-> "user", content |-> chat.question]
           /\ \A i \in 1..n :
                 msgs[1 + i] = [role |-> items[Len(items) - n + i].role,
                               content |-> items[Len(items) - n + i].content]

\* a request was built from a history of more than 10 entries
C18_Witness ==
    /\ chat.genCalls > 0
    /\ chat.history.isArray
    /\ Len(chat.history.items) > 10
    /\ Len(chat.request.messages) = 12

\* C19: for every non-empty text of length n and every 0 <= overlap < size,
\* chunkText returns, and returns exactly ceil(n / (size - overlap)) chunks, at
\* least one.
C19_ChunkCount ==
    call.pc = "returned" =>
        LET n == Len(call.text)
            step == call.chunkSize - call.overlap
        IN /\ Len(call.out) >= 1
           /\ Len(call.out) * step >= n
           /\ (Len(call.out) - 1) * step < n

\* a text cut into several overlapping chunks
C19_Witness ==
    /\ call.pc = "returned"
    /\ call.overlap > 0
    /\ Len(call.out) >= 3

\* a chunk without its first k characters
DropFirst(c, k) == IF k >= Len(c) THEN "" ELSE SubSeq(c, k + 1, Len(c))

RECURSIVE Rejoin(_, _)
Rejoin(cs, k) ==
    IF cs = <<>> THEN "" ELSE DropFirst(Head(cs), k) \o Rejoin(Tail(cs), k)

\* C20: chunk i is the slice of the text from i*(size-overlap) up to
\* min(i*(size-overlap)+size, length), and chunk 0 followed by each later chunk
\* without its first `overlap` characters is the text.
C20_ChunksAreSlices ==
    call.pc = "returned" =>
        LET n == Len(call.text)
            step == call.chunkSize - call.overlap
        IN /\ \A i \in 0..(Len(call.out) - 1) :
                 call.out[i + 1] =
                   SubSeq(call.text, i * step + 1,
                          IF i * step + call.chunkSize < n
                          THEN i * step + call.chunkSize ELSE n)
           /\ Len(call.out) >= 1
           /\ Head(call.out) \o Rejoin(Tail(call.out), call.overlap) = call.text

\* the last chunk is shorter than the overlap it shares with the one before
C20_Witness ==
    /\ call.pc = "returned"
    /\ Len(call.out) >= 2
    /\ call.overlap > 0
    /\ Len(call.out[Len(call.out)]) < call.overlap

\* C21: a chunkText call with overlap >= size on a non-empty text is rejected: it
\* produces no chunk, and in particular never more chunks than the text has
\* characters.
C21_OverlapRejected ==
    (call.pc \in {"loop", "returned"} /\ call.overlap >= call.chunkSize)
        => /\ call.out = <<>>
           /\ Len(call.out) <= Len(call.text)

\* C22: the page number stored for the chunk at ordinal i of a text of n characters
\* is max(1, ceil(i*800*P / n)) with P = max(1, ceil(n / 3000)); it lies between
\* 1 and P and is not below the page number of the chunk before it.
C22_PageNumberFormula ==
    call.pc = "returned" =>
        LET n == call.totalChars
            i == call.index
            P == IF n <= 3000 THEN 1 ELSE (n + 2999) \div 3000
            exact == IF i = 0 THEN 1 ELSE (i * 800 * P + n - 1) \div n
        IN /\ call.page = exact
           /\ 1 <= call.page /\ call.page <= P
           /\ call.before <= call.page

\* every extraction path of the request gave a text shorter than 10 characters
EveryPathShort(p) ==
    LET file == storage[procs[p].storage_path] IN
    IF EndsWith(file.name, ".txt") THEN TooShort(file.bytes)
    ELSE IF EndsWith(file.name, ".pdf")
    THEN TooShort(procs[p].extracted) /\ TooShort(heuristicText(file.bytes))
    ELSE TRUE

PlaceholderRow(p) ==
    [document_id |-> procs[p].document_id, subject_id |-> procs[p].subject_id,
     content |-> placeholderText(procs[p].filename), page_number |-> 1, chunk_index |-> 0]

\* C23: when every extraction path gave a text of trimmed length below 10 (an empty
\* .txt, a file that is neither .txt nor .pdf, a PDF with nothing recoverable), the
\* text that is chunked is the placeholder naming the file, and the rows stored for
\* the document are exactly one, with ordinal 0.
C23_PlaceholderSingleChunk ==
    \A p \in DOMAIN procs :
        EveryPathShort(p) =>
            /\ procs[p].pc \in {"check", "insert"} =>
                  /\ procs[p].text = placeholderText(procs[p].filename)
                  /\ chunkRows(procs[p].document_id, procs[p].subject_id, procs[p].text)
                       = {PlaceholderRow(p)}
            /\ (procs[p].pc = "done" /\ procs[p].status = 200 /\ DocumentExists(p))
                  => ChunksOf(p) = {PlaceholderRow(p)}

\* the placeholder row has been stored for a PDF that gave nothing, to the
\* capability and to the fallback
C23_Witness ==
    \E p \in DOMAIN procs :
        /\ procs[p].filename = FileScan.name
        /\ EveryPathShort(p)
        /\ procs[p].pc = "done" /\ procs[p].status = 200
        /\ ChunksOf(p) = {PlaceholderRow(p)}

\* C24: once the file is downloaded, no failure of the text extraction (a status
\* other than success, a thrown network error, an unreadable response body) makes
\* the processing fail: a request fails only for the download, for a deleted
\* document or for the insert, and a PDF whose document is still there gets its
\* chunks from the fallback or the placeholder.
C24_ExtractionNeverFails ==
    \A p \in DOMAIN procs :
        /\ (procs[p].pc = "done" /\ procs[p].status = 500)
              => procs[p].error \in {DownloadFailed, DocumentDeleted, InsertFailed}
        /\ procs[p].pc \in {"check", "insert"} => ~TooShort(procs[p].text)

\* C25: the body of a study response of status 200 holds either a list of exactly
\* 5 multiple-choice items and a list of exactly 3 short-answer items, or two empty
\* lists; no other shape is returned with status 200.
C25_StudySetShape ==
    (study.pc = "done" /\ study.status = 200) =>
        LET mcqs == Get(study.body, "mcqs")
            shortAnswers == Get(study.body, "shortAnswers")
        IN /\ mcqs.t = "list" /\ shortAnswers.t = "list"
           /\ \/ Len(mcqs.v) = 5 /\ Len(shortAnswers.v) = 3
              \/ Len(mcqs.v) = 0 /\ Len(shortAnswers.v) = 0

C27_CallHistoryComplete ==
    (call.pc = "thinking" /\ call.active /\ call.mounted)
        => call.sent = recentChat(call.chatMessages) \o call.callHistory

\* C28: once endCall has run the call stays idle: nothing that was in flight sets
\* the call state to speaking or listening (or to anything but idle), starts
\* playback or starts a recording.
C28_IdleAfterEndCall ==
    call.ended =>
        /\ call.callState = "idle"
        /\ ~call.playing
        /\ ~call.recording

\* C29: for every answered question the log read by fetchMessages holds the user
\* turn before the assistant turn: once both rows of an answer are stored, the
\* last two rows of the subject are the question and then the answer.
C29_UserTurnBeforeAssistant ==
    (/\ chat.pc = "done" /\ chat.status = 200
     /\ chat.log = [user |-> "inserted", assistant |-> "inserted"]
     /\ SubjectExists(chat.subject_id))
        => LET log == fetchMessages(chat.subject_id) IN
           /\ Len(log) >= 2
           /\ log[Len(log) - 1] = logRow(chat, "user")
           /\ log[Len(log)] = logRow(chat, "assistant")

\* C30: a user message that handleSend has added to a subject's displayed
\* conversation stays in it whatever happens later, a fetchMessages load that
\* completes after the send included; and the reply to a question is in the
\* conversation of the subject the question was asked in.
C30_SentMessagesKept ==
    /\ \A a \in session.asked :
          \E k \in DOMAIN displayed(session.messages, a.subjectId) :
              displayed(session.messages, a.subjectId)[k]
                  = [role |-> "user", content |-> a.content]
    /\ \A subjectId \in session.answered :
          \E k \in DOMAIN displayed(session.messages, subjectId) :
              displayed(session.messages, subjectId)[k].role = "assistant"

====
